---- MODULE Spec2Model ----
(***************************************************************************)
(* Sector code extraction and escalation engine of src/src/extract_codes.py *)
(* Strings are sequences of one-character strings.  The regular          *)
(* expressions of extract_sector_codes are modelled by what Python's re    *)
(* does on them (leftmost match, greedy quantifiers, backtracking).        *)
(***************************************************************************)
EXTENDS Integers, Sequences, FiniteSets, TLC

VARIABLES
    pc,               \* position of the run the specification is about
    pdf_path,         \* extract_sector_codes: pdf_path, a sequence of path components
    redo_empty,       \* extract_sector_codes: redo_empty
    loader,           \* what UnstructuredFileLoader.load() yields, per strategy
    initial_strategy, \* extract_sector_codes: initial_strategy of the current call
    text,             \* extract_sector_codes: text of the current call
    all_codes,        \* extract_sector_codes: all_codes of the current call
    filtered_codes,   \* extract_sector_codes: filtered_codes of the current call
    attempts,         \* history: per call made so far, its strategy and its all_codes
    console,          \* history: the messages log_msg printed
    result,           \* <<>> or <<the dictionary extract_sector_codes returned>>
    clock,            \* datetime.now(), in seconds
    code,             \* the candidate the validator is given
    verdict,          \* the validator's answer for code
    df,               \* process_pdfs: df, a sequence of rows
    csv,              \* output.csv: <<>> when absent, else <<the lines written>>
    last,             \* history: per document name, <<>> or <<the last outcome upserted>>
    upserts,          \* history: the number of upserts made
    recent,           \* history: <<>> or <<the outcome upserted last, times in a row>>
    load_fails,       \* the strategies for which loader.load() raises
    track_errors,     \* extract_text_from_pdf: track_errors
    skipped,          \* skipped_files.txt: the paths written, in order
    files,            \* process_pdfs: files, in the order of submission
    num_threads,      \* process_pdfs: num_threads
    log,              \* process_pdfs: log
    next_task,        \* the executor's queue: the index in files of the next task
    wpc,              \* per worker thread, where it is in process_single_pdf
    wdoc,             \* per worker thread, the index in files of its task
    wstrategy,        \* per worker thread, initial_strategy of its current call
    futures,          \* per index in files: <<>> while pending, else <<what the future holds>>
    collected,        \* process_pdfs: the futures the loop of line 189 has been through
    in_log,           \* the threads inside the with block of log_msg on logs.txt
    error_log         \* error_logs.txt: the paths of the failures written, in order

vars == <<pc, pdf_path, redo_empty, loader, initial_strategy, text, all_codes,
          filtered_codes, attempts, console, result, clock, code, verdict,
          df, csv, last, upserts, recent, load_fails, track_errors, skipped,
          files, num_threads, log, next_task, wpc, wdoc, wstrategy, futures,
          collected, in_log, error_log>>

ctlVars == <<pdf_path, redo_empty, loader, initial_strategy, filtered_codes,
             attempts, console, result>>
validVars == <<code, verdict>>
storeVars == <<df, csv, last, upserts, recent>>
failVars == <<load_fails, track_errors, skipped>>
batchVars == <<files, num_threads, log, next_task, wpc, wdoc, wstrategy, futures,
               collected, in_log, error_log>>

\* no loader failure, nothing skipped
NoFail == load_fails = {} /\ track_errors = FALSE /\ skipped = <<>>

\* no batch is running
NoBatch ==
    /\ files = <<>> /\ num_threads = 0 /\ log = FALSE /\ next_task = 0
    /\ wpc = <<>> /\ wdoc = <<>> /\ wstrategy = <<>> /\ futures = <<>>
    /\ collected = 0 /\ in_log = {} /\ error_log = <<>>

(***************************************************************************)
(* Characters and strings                                                  *)
(***************************************************************************)
\* \d of the regular expressions and str.isdigit, on ASCII
Digits == {"0", "1", "2", "3", "4", "5", "6", "7", "8", "9"}

\* \s of the regular expressions and the characters str.strip() removes
Whitespace == {" ", "\t", "\n"}

IsBlockChar(c) == c \in Digits \cup Whitespace \cup {"."}

\* re.IGNORECASE on the letters of the marker word
Lower(c) ==
    CASE c = "P" -> "p"
      [] c = "A" -> "a"
      [] c = "R" -> "r"
      [] c = "I" -> "i"
      [] c = "T" -> "t"
      [] c = "E" -> "e"
      [] c = "S" -> "s"
      [] OTHER -> c

MarkerWord == <<"p", "a", "r", "i", "t", "a", "i", "r", "e">>

MaxOf(S) == CHOOSE x \in S : \A y \in S : y <= x

RECURSIVE Flatten(_)
Flatten(ss) ==
    IF ss = <<>> THEN <<>> ELSE Head(ss) \o Flatten(Tail(ss))

\* str.strip()
Strip(s) ==
    LET keep == {i \in 1..Len(s) : s[i] \notin Whitespace}
    IN  IF keep = {} THEN <<>>
        ELSE SubSeq(s, CHOOSE i \in keep : \A j \in keep : i <= j, MaxOf(keep))

(***************************************************************************)
(* Code Validator: lines 78-79 of extract_sector_codes                     *)
(***************************************************************************)
\* code.split(".")[0]
NumberPart(c) ==
    LET dots == {i \in 1..Len(c) : c[i] = "."}
    IN  IF dots = {} THEN c
        ELSE SubSeq(c, 1, (CHOOSE i \in dots : \A j \in dots : i <= j) - 1)

\* code.replace(".", "", 1)
ReplaceFirstPeriodMutant(c) == SelectSeq(c, LAMBDA ch : ch # ".")
ReplaceFirstPeriod(c) ==
    LET dots == {i \in 1..Len(c) : c[i] = "."}
    IN  IF dots = {} THEN c
        ELSE LET d == CHOOSE i \in dots : \A j \in dots : i <= j
             IN  SubSeq(c, 1, d - 1) \o SubSeq(c, d + 1, Len(c))

\* str.isdigit(): false on the empty string
IsDigitStr(s) == Len(s) > 0 /\ \A i \in 1..Len(s) : s[i] \in Digits

\* the condition of line 79
IsInvalid(c) == Len(NumberPart(c)) < 3 \/ ~IsDigitStr(ReplaceFirstPeriod(c))

(***************************************************************************)
(* Code Pattern Matcher: lines 66-74 of extract_sector_codes               *)
(***************************************************************************)
\* the literal "paritaire" of the pattern, at position i of t
HasMarkerAtMutant(t, i) ==
    /\ i + 7 <= Len(t)
    /\ \A j \in 1..8 : Lower(t[i + j - 1]) = MarkerWord[j]
HasMarkerAt(t, i) ==
    /\ i + 8 <= Len(t)
    /\ \A j \in 1..9 : Lower(t[i + j - 1]) = MarkerWord[j]

\* [\d\s.]+ from position k: the last position of the greedy run
RunEnd(t, k) ==
    CHOOSE e \in k..Len(t) :
        /\ \A m \in k..e : IsBlockChar(t[m])
        /\ (e = Len(t) \/ ~IsBlockChar(t[e + 1]))

\* [^\d]*[\d\s.]+ from position k0: [^\d]* is greedy and gives characters back
\* until [\d\s.]+ finds one character; 0 when the pattern fails
FillerThenBlock(t, k0) ==
    LET starts == {k \in k0..Len(t) :
                      /\ IsBlockChar(t[k])
                      /\ \A m \in k0..(k - 1) : t[m] \notin Digits}
    IN  IF starts = {} THEN 0 ELSE RunEnd(t, MaxOf(starts))

\* the whole pattern at position i: the last position of the match, 0 for none
MatchEnd(t, i) ==
    IF ~HasMarkerAt(t, i) THEN 0
    ELSE LET after == i + Len(MarkerWord)
             plural == after <= Len(t) /\ Lower(t[after]) = "s"
         IN  IF plural /\ FillerThenBlock(t, after + 1) # 0
             THEN FillerThenBlock(t, after + 1)
             ELSE FillerThenBlock(t, after)

\* re.findall(pattern, text, re.IGNORECASE) scanning from position i
RECURSIVE FindAll(_, _)
FindAll(t, i) ==
    IF i > Len(t) THEN <<>>
    ELSE LET e == MatchEnd(t, i)
         IN  IF e = 0 THEN FindAll(t, i + 1)
             ELSE <<SubSeq(t, i, e)>> \o FindAll(t, e + 1)

\* re.sub(r"[^\d.]+|\.{2,}", " ", s) from position i
RECURSIVE CleanSub(_, _)
CleanSub(s, i) ==
    IF i > Len(s) THEN <<>>
    ELSE LET noise(c) == c \notin Digits /\ c # "."
             runTo(P(_)) ==
                 CHOOSE e \in i..Len(s) :
                     /\ \A m \in i..e : P(s[m])
                     /\ (e = Len(s) \/ ~P(s[e + 1]))
             isDot(c) == c = "."
         IN  IF noise(s[i]) THEN <<" ">> \o CleanSub(s, runTo(noise) + 1)
             ELSE IF s[i] = "." /\ i < Len(s) /\ s[i + 1] = "."
                  THEN <<" ">> \o CleanSub(s, runTo(isDot) + 1)
                  ELSE <<s[i]>> \o CleanSub(s, i + 1)

\* re.sub(r"[\s]+", ";", s) from position i
RECURSIVE SemiSub(_, _)
SemiSub(s, i) ==
    IF i > Len(s) THEN <<>>
    ELSE IF s[i] \in Whitespace
         THEN LET e == CHOOSE e \in i..Len(s) :
                          /\ \A m \in i..e : s[m] \in Whitespace
                          /\ (e = Len(s) \/ s[e + 1] \notin Whitespace)
              IN  <<";">> \o SemiSub(s, e + 1)
         ELSE <<s[i]>> \o SemiSub(s, i + 1)

\* s.split(";"): one piece more than there are separators, "" gives [""]
RECURSIVE SplitSemi(_)
SplitSemi(s) ==
    LET semis == {i \in 1..Len(s) : s[i] = ";"}
    IN  IF semis = {} THEN <<s>>
        ELSE LET d == CHOOSE i \in semis : \A j \in semis : i <= j
             IN  <<SubSeq(s, 1, d - 1)>> \o SplitSemi(SubSeq(s, d + 1, Len(s)))

\* the expression of lines 69-71 for one match
CodesOfMatch(m) == SplitSemi(SemiSub(Strip(CleanSub(Strip(m), 1)), 1))

\* all_codes of lines 67-74
Matcher(t) ==
    LET matches == FindAll(t, 1)
    IN  Flatten([k \in 1..Len(matches) |-> CodesOfMatch(matches[k])])

(***************************************************************************)
(* Escalation Controller: extract_sector_codes, lines 52-114               *)
(***************************************************************************)
\* line 35: loader.load() raises for this strategy
LoadFails(strategy) == strategy \in load_fails

\* extract_text_from_pdf: the joined page contents the loader gives, and ""
\* (line 49) when the loader raises
extract_text_from_pdf(strategy) ==
    IF LoadFails(strategy) THEN <<>> ELSE loader[strategy]

\* lines 47-48: skipped_files.txt after the call, failed says the loader raised
SkipLogMutant(skip, path, failed) == skip
SkipLog(skip, path, failed) == IF failed THEN Append(skip, path) ELSE skip

\* lines 39-45: what the except branch prints, the console after it
ErrorSaid(said, failed) ==
    IF failed /\ track_errors THEN Append(said, <<"Error loading PDF">>) ELSE said

\* line 80: an invalid code makes the call start over with ocr_only
SwitchesOnInvalidMutant(strategy) == TRUE
SwitchesOnInvalid(strategy) == strategy = "fast"

\* the loop of lines 76-89 over the codes not yet seen: acc is filtered_codes,
\* switch says that the loop left through the return of line 85
RECURSIVE FilterLoopMutant(_, _, _)
FilterLoopMutant(codes, strategy, acc) ==
    IF codes = <<>> THEN [switch |-> FALSE, filtered |-> acc]
    ELSE IF IsInvalid(Head(codes))
         THEN FilterLoopMutant(Tail(codes), strategy, acc)
         ELSE FilterLoopMutant(Tail(codes), strategy, Append(acc, Head(codes)))
RECURSIVE FilterLoop(_, _, _)
FilterLoop(codes, strategy, acc) ==
    IF codes = <<>> THEN [switch |-> FALSE, filtered |-> acc]
    ELSE IF IsInvalid(Head(codes))
         THEN IF SwitchesOnInvalid(strategy)
              THEN [switch |-> TRUE, filtered |-> acc]
              ELSE FilterLoop(Tail(codes), strategy, acc)
         ELSE FilterLoop(Tail(codes), strategy, Append(acc, Head(codes)))

\* line 91: the fast call found no valid code
EmptyFastMutant(strategy, filtered) == filtered = <<>>
EmptyFast(strategy, filtered) == strategy = "fast" /\ filtered = <<>>

\* line 92: the empty fast call starts over with ocr_only
RedoesEmptyMutant(redo) == TRUE
RedoesEmpty(redo) == redo

\* os.path.basename(pdf_path)
Basename(path) == path[Len(path)]

\* "; ".join(filtered_codes)
RECURSIVE JoinCodes(_)
JoinCodes(codes) ==
    IF codes = <<>> THEN <<>>
    ELSE IF Len(codes) = 1 THEN Head(codes)
         ELSE Head(codes) \o <<";", " ">> \o JoinCodes(Tail(codes))

\* decimal digits of a natural number
DigitChars == <<"0", "1", "2", "3", "4", "5", "6", "7", "8", "9">>

RECURSIVE Decimal(_)
Decimal(n) ==
    IF n < 10 THEN <<DigitChars[n + 1]>>
    ELSE Decimal(n \div 10) \o <<DigitChars[(n % 10) + 1]>>

\* datetime.now().strftime("%Y-%m-%d %H:%M:%S"): a text, the same within one second
Strftime(now) == <<"T">> \o Decimal(now)

\* line 107
UsedOcrOnlyMutant(strategy) == strategy = "fast"
UsedOcrOnly(strategy) == strategy = "ocr_only"

\* the dictionary of lines 108-114
Outcome(path, filtered, now, strategy) ==
    [DocumentName   |-> Basename(path),
     SectorCodes    |-> JoinCodes(filtered),
     NumberOfCodes  |-> Len(filtered),
     ProcessingTime |-> Strftime(now),
     UsedOCROnly    |-> UsedOcrOnly(strategy)]

\* one call of extract_sector_codes, up to its return or its recursive call
ExtractSectorCodes ==
    /\ pc = "attempting"
    /\ LET txt   == extract_text_from_pdf(initial_strategy)
           codes == Matcher(txt)
           loop  == FilterLoop(codes, initial_strategy, <<>>)
           said  == ErrorSaid(Append(console, <<"Processing", initial_strategy>>),
                              LoadFails(initial_strategy))
       IN  /\ text' = txt
           /\ skipped' = SkipLog(skipped, pdf_path, LoadFails(initial_strategy))
           /\ all_codes' = codes
           /\ filtered_codes' = loop.filtered
           /\ attempts' = Append(attempts, [strategy  |-> initial_strategy,
                                            all_codes |-> codes])
           /\ clock' = clock + 1
           /\ IF loop.switch
              THEN /\ console' = Append(said, <<"Detected short or invalid codes">>)
                   /\ initial_strategy' = "ocr_only"
                   /\ UNCHANGED <<pc, result>>
              ELSE IF EmptyFast(initial_strategy, loop.filtered) /\ RedoesEmpty(redo_empty)
                   THEN /\ console' = Append(said, <<"Could not detect any valid codes, switching">>)
                        /\ initial_strategy' = "ocr_only"
                        /\ UNCHANGED <<pc, result>>
                   ELSE /\ console' =
                              IF EmptyFast(initial_strategy, loop.filtered)
                              THEN Append(said, <<"Could not detect any valid codes">>)
                              ELSE said
                        /\ result' = <<Outcome(pdf_path, loop.filtered, clock + 1,
                                               initial_strategy)>>
                        /\ pc' = "accepted"
                        /\ UNCHANGED initial_strategy
    /\ UNCHANGED <<pdf_path, redo_empty, loader, load_fails, track_errors,
                   validVars, storeVars, batchVars>>

(***************************************************************************)
(* Result Store: df and output.csv of process_pdfs, lines 151-162, 189-195 *)
(***************************************************************************)
\* the columns of lines 155-161, the first line of output.csv
Columns ==
    <<"Document Name", "Sector Codes", "Number of Codes", "Processing Time",
      "Used OCR Only">>

\* A cell of the Sector Codes column is a str (a sequence of characters) or,
\* after pd.read_csv, <<"NaN">>, <<"int64">> \o digits or <<"float64">> \o repr.
IsTagged(v) == v # <<>> /\ v[1] \in {"NaN", "int64", "float64"}

\* DataFrame.to_csv on one cell of Sector Codes: NaN is written as nothing
CsvCodes(v) == IF IsTagged(v) THEN Tail(v) ELSE v

\* DataFrame.to_csv(output_csv, index=False)
ToCsv(table) ==
    <<Columns>> \o
    [i \in 1..Len(table) |->
        <<table[i].DocumentName,
          CsvCodes(table[i].SectorCodes),
          Decimal(table[i].NumberOfCodes),
          table[i].ProcessingTime,
          IF table[i].UsedOCROnly THEN <<"T", "r", "u", "e">>
                                  ELSE <<"F", "a", "l", "s", "e">>>>]

RECURSIVE ParseInt(_)
ParseInt(s) ==
    IF s = <<>> THEN 0
    ELSE 10 * ParseInt(SubSeq(s, 1, Len(s) - 1))
         + ((CHOOSE d \in 1..10 : DigitChars[d] = s[Len(s)]) - 1)

\* what pd.read_csv parses as a number
IsNumberText(f) ==
    /\ \E i \in 1..Len(f) : f[i] \in Digits
    /\ \A i \in 1..Len(f) : f[i] \in Digits \cup {"."}
    /\ Cardinality({i \in 1..Len(f) : f[i] = "."}) <= 1

RECURSIVE StripLeadingZeros(_)
StripLeadingZeros(s) ==
    IF Len(s) > 1 /\ s[1] = "0" THEN StripLeadingZeros(Tail(s)) ELSE s

RECURSIVE StripTrailingZeros(_)
StripTrailingZeros(s) ==
    IF Len(s) > 1 /\ s[Len(s)] = "0"
    THEN StripTrailingZeros(SubSeq(s, 1, Len(s) - 1))
    ELSE s

\* repr of the float a number text is parsed to (short numbers)
FloatRepr(f) ==
    LET whole == NumberPart(f)
        frac  == SubSeq(f, Len(whole) + 2, Len(f))
    IN  StripLeadingZeros(IF whole = <<>> THEN <<"0">> ELSE whole)
        \o <<".">>
        \o StripTrailingZeros(IF frac = <<>> THEN <<"0">> ELSE frac)

\* the dtype pd.read_csv infers for the Sector Codes column
CodesDtype(fields) ==
    IF \E i \in 1..Len(fields) : fields[i] # <<>> /\ ~IsNumberText(fields[i])
    THEN "object"
    ELSE IF \A i \in 1..Len(fields) :
                fields[i] # <<>> /\ \A k \in 1..Len(fields[i]) : fields[i][k] # "."
         THEN "int64"
         ELSE "float64"

ReadCodes(f, dtype) ==
    IF f = <<>> THEN <<"NaN">>
    ELSE IF dtype = "object" THEN f
         ELSE IF dtype = "int64" THEN <<"int64">> \o StripLeadingZeros(f)
              ELSE <<"float64">> \o FloatRepr(f)

\* pd.read_csv(output_csv), line 152
ReadCsv(lines) ==
    LET rows  == Tail(lines)
        dtype == CodesDtype([i \in 1..Len(rows) |-> rows[i][2]])
    IN  [i \in 1..Len(rows) |->
            [DocumentName   |-> rows[i][1],
             SectorCodes    |-> ReadCodes(rows[i][2], dtype),
             NumberOfCodes  |-> ParseInt(rows[i][3]),
             ProcessingTime |-> rows[i][4],
             UsedOCROnly    |-> rows[i][5] = <<"T", "r", "u", "e">>]]

\* lines 151-162: the table process_pdfs starts from
LoadOrInit(file) == IF file = <<>> THEN <<>> ELSE ReadCsv(file[1])

\* line 193: df[df["Document Name"] != result["Document Name"]]
DropRowsMutant(table, name) == table
DropRows(table, name) == SelectSeq(table, LAMBDA r : r.DocumentName # name)

\* lines 193-194
UpsertMutant(table, outcome) == Append(table, outcome)
Upsert(table, outcome) == Append(DropRows(table, outcome.DocumentName), outcome)

(***************************************************************************)
(* Inputs: texts are concatenations of a few chunks                        *)
(***************************************************************************)
MaxChunks == 4
MaxCodeLen == 5

RECURSIVE Concats(_, _)
Concats(C, n) ==
    IF n = 0 THEN {<<>>}
    ELSE LET S == Concats(C, n - 1)
         IN  S \cup {s \o c : s \in S, c \in C}

MatchChunks ==
    { MarkerWord,
      <<"P", "a", "r", "i", "t", "a", "i", "r", "e", "s">>,
      <<"p", "a", "r", "i", "t", "a", "i", "r">>,
      <<"n">>, <<" ">>, <<".">>, <<"1", "2">>, <<"1", "1", "8">> }

MatchTexts == Concats(MatchChunks, MaxChunks)

CandidateStrings == Concats({<<"1">>, <<"7">>, <<".">>}, MaxCodeLen)

(***************************************************************************)
(* The matcher alone: lines 66-74 on one text                              *)
(***************************************************************************)
InitMatch ==
    /\ pc = "text"
    /\ text \in MatchTexts
    /\ all_codes = <<>>
    /\ pdf_path = <<>> /\ redo_empty = FALSE /\ loader = <<>>
    /\ initial_strategy = "fast" /\ filtered_codes = <<>> /\ attempts = <<>>
    /\ console = <<>> /\ result = <<>> /\ clock = 0
    /\ code = <<>> /\ verdict = "none"
    /\ df = <<>> /\ csv = <<>> /\ last = <<>> /\ upserts = 0 /\ recent = <<>>
    /\ NoFail /\ NoBatch

MatchCodes ==
    /\ pc = "text"
    /\ all_codes' = Matcher(text)
    /\ pc' = "matched"
    /\ UNCHANGED <<text, clock, ctlVars, validVars, storeVars, failVars, batchVars>>

SpecMatch == InitMatch /\ [][MatchCodes]_vars

(***************************************************************************)
(* The validator alone: lines 78-79 on one candidate                       *)
(***************************************************************************)
InitValid ==
    /\ pc = "candidate"
    /\ code \in CandidateStrings
    /\ verdict = "none"
    /\ text = <<>> /\ all_codes = <<>>
    /\ pdf_path = <<>> /\ redo_empty = FALSE /\ loader = <<>>
    /\ initial_strategy = "fast" /\ filtered_codes = <<>> /\ attempts = <<>>
    /\ console = <<>> /\ result = <<>> /\ clock = 0
    /\ df = <<>> /\ csv = <<>> /\ last = <<>> /\ upserts = 0 /\ recent = <<>>
    /\ NoFail /\ NoBatch

Validate ==
    /\ pc = "candidate"
    /\ verdict' = IF IsInvalid(code) THEN "invalid" ELSE "valid"
    /\ pc' = "validated"
    /\ UNCHANGED <<code, text, all_codes, clock, ctlVars, storeVars, failVars, batchVars>>

SpecValid == InitValid /\ [][Validate]_vars

(***************************************************************************)
(* The controller on one document: process_single_pdf's call with "fast"   *)
(***************************************************************************)
CtlMaxChunks == 3

CtlChunks ==
    { <<"p", "a", "r", "i", "t", "a", "i", "r", "e", " ">>,
      <<"1", "1", "8", ".", "0", "1", " ", "2", "1", "8", " ">>,
      <<"1", "2", " ">> }

CtlTexts == Concats(CtlChunks, CtlMaxChunks)

InitCtl ==
    /\ pc = "attempting"
    /\ pdf_path = <<<<"i", "n">>, <<"a", ".", "p", "d", "f">>>>
    /\ redo_empty \in BOOLEAN
    /\ loader \in [{"fast", "ocr_only"} -> CtlTexts]
    /\ load_fails \in SUBSET {"fast", "ocr_only"}
    /\ \A s \in load_fails : loader[s] = <<>>
    /\ track_errors \in BOOLEAN
    /\ track_errors => load_fails # {}
    /\ skipped = <<>>
    /\ initial_strategy = "fast"
    /\ text = <<>> /\ all_codes = <<>> /\ filtered_codes = <<>>
    /\ attempts = <<>> /\ console = <<>> /\ result = <<>> /\ clock = 0
    /\ code = <<>> /\ verdict = "none"
    /\ df = <<>> /\ csv = <<>> /\ last = <<>> /\ upserts = 0 /\ recent = <<>>
    /\ NoBatch

SpecCtl == InitCtl /\ [][ExtractSectorCodes]_vars

(***************************************************************************)
(* Properties of the controller                                            *)
(***************************************************************************)
HasInvalidCode(codes) == \E i \in 1..Len(codes) : IsInvalid(codes[i])

ValidOnly(codes) == SelectSeq(codes, LAMBDA c : ~IsInvalid(c))

\* the codes an outcome lists: its SectorCodes cut at each "; "
RECURSIVE SplitCodes(_)
SplitCodes(s) ==
    IF s = <<>> THEN <<>>
    ELSE LET seps == {i \in 1..(Len(s) - 1) : s[i] = ";" /\ s[i + 1] = " "}
         IN  IF seps = {} THEN <<s>>
             ELSE LET d == CHOOSE i \in seps : \A j \in seps : i <= j
                  IN  <<SubSeq(s, 1, d - 1)>> \o SplitCodes(SubSeq(s, d + 2, Len(s)))

ListedCodes == SplitCodes(result[1].SectorCodes)

Accepted == pc = "accepted" /\ result # <<>>

\* C1: a run started with "fast" makes at most two calls, "fast" then at most
\* once "ocr_only"; the ocr_only call returns an outcome and starts no other
\* call; a run that has no outcome yet can make its next call, and every step
\* is one call more: the run ends with an accepted outcome after one or two.
AttemptsInOrder ==
    /\ Len(attempts) <= 2
    /\ \A i \in 1..Len(attempts) :
          attempts[i].strategy = IF i = 1 THEN "fast" ELSE "ocr_only"
    /\ (Len(attempts) = 2 => Accepted)
    /\ (pc = "accepted" => result # <<>> /\ Len(attempts) >= 1)
    /\ (pc # "accepted" => pc = "attempting" /\ initial_strategy \in DOMAIN loader)

C1_AtMostTwoAttempts ==
    /\ []AttemptsInOrder
    /\ [][Len(attempts') = Len(attempts) + 1 /\ pc = "attempting"]_vars

C1_Witness ==
    /\ Accepted
    /\ Len(attempts) = 2
    /\ HasInvalidCode(attempts[2].all_codes)

\* C2: when the fast call has a candidate that fails the validator, the next
\* call is ocr_only whatever redo_empty is, and the accepted outcome lists
\* exactly the valid candidates of the ocr_only call, with Used OCR Only true.
C2_InvalidTrigger ==
    (Len(attempts) >= 1 /\ HasInvalidCode(attempts[1].all_codes)) =>
        /\ (Len(attempts) = 1 =>
               pc = "attempting" /\ initial_strategy = "ocr_only" /\ result = <<>>)
        /\ (pc = "accepted" =>
               /\ Len(attempts) = 2
               /\ attempts[2].strategy = "ocr_only"
               /\ text = loader["ocr_only"]
               /\ ListedCodes = ValidOnly(attempts[2].all_codes)
               /\ result[1].UsedOCROnly = TRUE)

C2_Witness ==
    /\ Accepted
    /\ ~redo_empty
    /\ attempts[1].all_codes # <<>>
    /\ ~IsInvalid(attempts[1].all_codes[1])
    /\ HasInvalidCode(attempts[1].all_codes)
    /\ ListedCodes = <<>>

\* C3: when the fast call yields no candidate at all, then without redo_empty
\* the outcome is accepted at once with no code, count 0, Used OCR Only false
\* and the advisory message as the last message; with redo_empty exactly one
\* ocr_only call is made before an outcome is accepted.
C3_EmptyTrigger ==
    (Len(attempts) >= 1 /\ attempts[1].all_codes = <<>>) =>
        IF redo_empty
        THEN /\ (Len(attempts) = 1 =>
                    pc = "attempting" /\ initial_strategy = "ocr_only" /\ result = <<>>)
             /\ (pc = "accepted" =>
                    Len(attempts) = 2 /\ attempts[2].strategy = "ocr_only")
        ELSE /\ Accepted
             /\ Len(attempts) = 1
             /\ result[1].SectorCodes = <<>>
             /\ result[1].NumberOfCodes = 0
             /\ result[1].UsedOCROnly = FALSE
             /\ console[Len(console)] = <<"Could not detect any valid codes">>

C3_Witness ==
    /\ Accepted
    /\ ~redo_empty
    /\ attempts[1].all_codes = <<>>
    /\ loader["fast"] # <<>>
    /\ loader["ocr_only"] # <<>>

\* C4: when the fast call yields candidates that all pass the validator, the
\* outcome is accepted without an ocr_only call; it lists the candidates in
\* their order, duplicates kept, counts them, and has Used OCR Only false.
C4_FastAcceptance ==
    (/\ Len(attempts) >= 1
     /\ attempts[1].all_codes # <<>>
     /\ ~HasInvalidCode(attempts[1].all_codes)) =>
        /\ Accepted
        /\ Len(attempts) = 1
        /\ ListedCodes = attempts[1].all_codes
        /\ result[1].NumberOfCodes = Len(attempts[1].all_codes)
        /\ result[1].UsedOCROnly = FALSE

C4_Witness ==
    /\ Accepted
    /\ Len(attempts) = 1
    /\ \E i, j \in 1..Len(ListedCodes) :
          i < j /\ ListedCodes[i] = ListedCodes[j]
    /\ \E i, j \in 1..Len(ListedCodes) :
          i < j /\ ListedCodes[i] # ListedCodes[j]

\* C5: an ocr_only call is always accepted: its outcome lists exactly the
\* candidates of that call that pass the validator, in order, counts them and
\* has Used OCR Only true; every accepted outcome lists valid codes only.
C5_OcrAcceptedAsIs ==
    /\ (Len(attempts) = 2 =>
           /\ Accepted
           /\ ListedCodes = ValidOnly(attempts[2].all_codes)
           /\ result[1].NumberOfCodes = Len(ValidOnly(attempts[2].all_codes))
           /\ result[1].UsedOCROnly = TRUE)
    /\ (Accepted =>
           /\ \A i \in 1..Len(ListedCodes) : ~IsInvalid(ListedCodes[i])
           /\ result[1].NumberOfCodes = Len(ListedCodes))

C5_Witness ==
    /\ Accepted
    /\ Len(attempts) = 2
    /\ HasInvalidCode(attempts[2].all_codes)
    /\ ListedCodes # <<>>

(***************************************************************************)
(* Properties of the validator                                             *)
(***************************************************************************)
\* the number of characters before the first period (all of them if none)
LeadLen(c) ==
    IF \E i \in 1..Len(c) : c[i] = "."
    THEN (CHOOSE i \in 1..Len(c) : c[i] = "." /\ \A j \in 1..(i - 1) : c[j] # ".") - 1
    ELSE Len(c)

Periods(c) == Cardinality({i \in 1..Len(c) : c[i] = "."})

OnlyDigitsAndPeriods(c) == \A i \in 1..Len(c) : c[i] \in Digits \cup {"."}

\* C6 as stated: a candidate over digits and periods is accepted exactly when
\* its part before the first period has length at least 3 and the candidate
\* with all its periods stripped consists of digits.
C6_AllPeriodsStripped ==
    pc = "validated" =>
        (verdict = "valid" <=> (LeadLen(code) >= 3 /\ OnlyDigitsAndPeriods(code)))

\* C6 amended: a candidate over digits and periods is accepted exactly when its
\* part before the first period has length at least 3 and it has at most one
\* period; a leading part of length 2 is rejected.
C6_AtMostOnePeriod ==
    pc = "validated" =>
        /\ verdict = "valid" <=>
               (LeadLen(code) >= 3 /\ Periods(code) <= 1 /\ OnlyDigitsAndPeriods(code))
        /\ (LeadLen(code) = 2 => verdict = "invalid")

C6_Witness ==
    /\ pc = "validated"
    /\ verdict = "valid"
    /\ LeadLen(code) = 3
    /\ Periods(code) = 1
    /\ Len(code) > 4

(***************************************************************************)
(* Properties of the matcher                                               *)
(***************************************************************************)
ContainsMarkerWord(t) ==
    \E i \in 1..(Len(t) - 8) : [j \in 1..9 |-> Lower(t[i + j - 1])] = MarkerWord

HasDigit(t) == \E i \in 1..Len(t) : t[i] \in Digits

\* C7 as stated, on the texts that hold no digit at all, where every block
\* after a marker is without digit: the matcher yields no candidate.
C7_NoDigitNoCandidate ==
    (pc = "matched" /\ ~HasDigit(text)) => all_codes = <<>>

\* the code block of a match: from its first digit on, or, when it has no
\* digit, the digits, whitespace and periods it ends with
BlockOf(m) ==
    IF HasDigit(m)
    THEN SubSeq(m, CHOOSE i \in 1..Len(m) :
                       m[i] \in Digits /\ \A j \in 1..(i - 1) : m[j] \notin Digits,
                Len(m))
    ELSE SubSeq(m, CHOOSE i \in 1..Len(m) :
                       /\ \A j \in i..Len(m) : IsBlockChar(m[j])
                       /\ (i = 1 \/ ~IsBlockChar(m[i - 1])),
                Len(m))

\* the whitespace-separated tokens of s
RECURSIVE Tokens(_)
Tokens(s) ==
    LET t == Strip(s)
    IN  IF t = <<>> THEN <<>>
        ELSE LET ws == {i \in 1..Len(t) : t[i] \in Whitespace}
             IN  IF ws = {} THEN <<t>>
                 ELSE LET d == CHOOSE i \in ws : \A j \in ws : i <= j
                      IN  <<SubSeq(t, 1, d - 1)>> \o Tokens(SubSeq(t, d, Len(t)))

RECURSIVE BlockTokens(_)
BlockTokens(ms) ==
    IF ms = <<>> THEN <<>>
    ELSE Tokens(CleanSub(BlockOf(Head(ms)), 1)) \o BlockTokens(Tail(ms))

\* C8 as stated: the candidates are, over the matches in document order, the
\* whitespace-separated tokens of each match's code block once cleaned;
\* nothing of the marker word or of the filler is a candidate.
C8_TokensOfBlocks ==
    pc = "matched" => all_codes = BlockTokens(FindAll(text, 1))

\* C9: a text without the marker word gives no candidate.
C9_NoMarkerNoCandidate ==
    (pc = "matched" /\ ~ContainsMarkerWord(text)) => all_codes = <<>>

C9_Witness ==
    /\ pc = "matched"
    /\ ~ContainsMarkerWord(text)
    /\ HasDigit(text)
    /\ \E i \in 1..Len(text) : text[i] = "p"
    /\ all_codes = <<>>

(***************************************************************************)
(* The store alone: the loop of lines 189-195 over outcomes                *)
(***************************************************************************)
MaxUpserts == 2
MaxClock == 1

StorePaths ==
    { <<<<"i", "n">>, <<"a", ".", "p", "d", "f">>>>,
      <<<<"i", "n">>, <<"b", ".", "p", "d", "f">>>> }

StoreNames == {Basename(p) : p \in StorePaths}

StoreCodeLists ==
    { <<>>,
      <<<<"1", "1", "8", ".", "1", "0">>>>,
      <<<<"1", "1", "8", ".", "1", "0">>, <<"2", "1", "8">>>> }

\* the tables an earlier run can have left in output.csv
PriorTables ==
    LET outcomes == {Outcome(p, c, 0, st) :
                        p \in StorePaths, c \in StoreCodeLists,
                        st \in {"fast", "ocr_only"}}
    IN  {t \in UNION {[1..n -> outcomes] : n \in 0..Cardinality(StorePaths)} :
            \A i, j \in 1..Len(t) : i # j => t[i].DocumentName # t[j].DocumentName}

InitStore ==
    /\ pc = "collecting"
    /\ csv \in {<<>>} \cup {<<ToCsv(t)>> : t \in PriorTables}
    /\ df = LoadOrInit(csv)
    /\ last = [n \in StoreNames |-> <<>>]
    /\ upserts = 0
    /\ recent = <<>>
    /\ clock = 0
    /\ NoFail /\ NoBatch
    /\ text = <<>> /\ all_codes = <<>>
    /\ pdf_path = <<>> /\ redo_empty = FALSE /\ loader = <<>>
    /\ initial_strategy = "fast" /\ filtered_codes = <<>> /\ attempts = <<>>
    /\ console = <<>> /\ result = <<>>
    /\ code = <<>> /\ verdict = "none"

\* line 195: output.csv after df.to_csv, which opens the file for writing
PersistMutant(file, table) ==
    IF file = <<>> THEN <<ToCsv(table)>> ELSE <<file[1] \o Tail(ToCsv(table))>>
Persist(file, table) == <<ToCsv(table)>>

\* history: the outcome upserted now, and how many times in a row it has been
Recent(before, outcome) ==
    IF before # <<>> /\ before[1] = outcome
    THEN <<outcome, before[2] + 1>>
    ELSE <<outcome, 1>>

\* lines 190-195 for one future whose result is an outcome
UpsertResult ==
    /\ pc = "collecting"
    /\ upserts < MaxUpserts
    /\ \E p \in StorePaths, c \in StoreCodeLists, st \in {"fast", "ocr_only"},
          now \in clock..MaxClock :
          LET outcome == Outcome(p, c, now, st)
          IN  /\ df' = Upsert(df, outcome)
              /\ csv' = Persist(csv, df')
              /\ last' = [last EXCEPT ![outcome.DocumentName] = <<outcome>>]
              /\ recent' = Recent(recent, outcome)
              /\ clock' = now
    /\ upserts' = upserts + 1
    /\ UNCHANGED <<pc, text, all_codes, ctlVars, validVars, failVars, batchVars>>

SpecStore == InitStore /\ [][UpsertResult]_vars

\* C10: every document name has at most one row, and a name that was upserted
\* has the row of its most recent upsert, whatever strategy that outcome used.
C10_LastWriteWins ==
    /\ \A i, j \in 1..Len(df) : i # j => df[i].DocumentName # df[j].DocumentName
    /\ \A n \in StoreNames :
          last[n] # <<>> =>
              Cardinality({i \in 1..Len(df) : df[i] = last[n][1]}) = 1

C10_Witness ==
    /\ upserts = 2
    /\ Len(df) = 2
    /\ \E n \in StoreNames :
          /\ last[n] # <<>>
          /\ last[n][1].UsedOCROnly = FALSE
          /\ \A m \in StoreNames \ {n} : last[m] = <<>>

\* C11: upserting the outcome that was upserted just before leaves the table,
\* rows and order, and output.csv as the first of the two upserts left them.
C11_UpsertIdempotent ==
    [][(upserts' = upserts + 1 /\ recent' # <<>> /\ recent'[2] >= 2)
           => (df' = df /\ csv' = csv)]_vars

C11_Witness ==
    /\ recent # <<>>
    /\ recent[2] = 2
    /\ Len(df) = 2
    /\ df[2] = recent[1]
    /\ csv = <<ToCsv(df)>>

(***************************************************************************)
(* Extraction failure in one call chain: lines 38-49 and 91-104            *)
(***************************************************************************)
\* the attempts made so far whose strategy the loader raises for
FailedAttempts == {k \in 1..Len(attempts) : LoadFails(attempts[k].strategy)}

\* C14: an attempt whose loader raises has no text and no candidate, its path
\* is written to skipped_files.txt, and the call goes on as for an empty
\* result: a failed fast attempt is accepted with no code when redo_empty is
\* unset and is followed by one ocr_only attempt when it is set, a failed
\* ocr_only attempt is accepted with no code; the call ends with an outcome.
C14_ExtractionFailure ==
    /\ \A k \in FailedAttempts : attempts[k].all_codes = <<>>
    /\ (attempts # <<>> /\ Len(attempts) \in FailedAttempts) => text = <<>>
    /\ Len(skipped) = Cardinality(FailedAttempts)
    /\ \A i \in 1..Len(skipped) : skipped[i] = pdf_path
    /\ (1 \in FailedAttempts /\ ~redo_empty) =>
           /\ Len(attempts) = 1
           /\ Accepted
           /\ result[1].NumberOfCodes = 0
           /\ result[1].UsedOCROnly = FALSE
    /\ (1 \in FailedAttempts /\ redo_empty) =>
           /\ initial_strategy = "ocr_only"
           /\ Len(attempts) <= 2
           /\ Len(attempts) = 1 => pc = "attempting"
           /\ Len(attempts) = 2 => attempts[2].strategy = "ocr_only" /\ Accepted
    /\ 2 \in FailedAttempts =>
           /\ Accepted
           /\ result[1].NumberOfCodes = 0
           /\ result[1].UsedOCROnly = TRUE
    /\ pc \in {"attempting", "accepted"}
    /\ pc = "accepted" => result # <<>>

C14_Witness ==
    /\ LoadFails("fast")
    /\ redo_empty
    /\ Len(attempts) = 2
    /\ Accepted
    /\ skipped = <<pdf_path>>
    /\ result[1].NumberOfCodes > 0

(***************************************************************************)
(* A batch: process_pdfs and the threads of its pool, lines 136-197        *)
(***************************************************************************)
MaxFiles == 2

\* --num-threads
ThreadCounts == {1, 2}

FileLetters == <<"a", "b", "c", "d">>

\* the .pdf files of the input folder, in the order os.listdir gives them
BatchFile(i) == <<<<"i", "n">>, <<FileLetters[i], ".", "p", "d", "f">>>>

BatchNames == {Basename(BatchFile(i)) : i \in 1..MaxFiles}

\* a document of an earlier run that is not in the input folder any more
OtherFile == <<<<"i", "n">>, <<"z", ".", "p", "d", "f">>>>

\* what the loader can give for a document: a text with two valid codes, a
\* text with a code that is too short
BatchTexts ==
    { <<"p", "a", "r", "i", "t", "a", "i", "r", "e", " ",
        "1", "1", "8", ".", "0", "1", " ", "2", "1", "8", " ">>,
      <<"p", "a", "r", "i", "t", "a", "i", "r", "e", " ", "1", "2", " ">> }

\* output.csv before the run: absent, or left by a run at time 0 with a row
\* for the first file and a row for OtherFile
BatchPriors ==
    { <<>>,
      <<ToCsv(<<Outcome(BatchFile(1), <<<<"1", "1", "8", ".", "1", "0">>>>, 0, "fast"),
                Outcome(OtherFile, <<<<"2", "1", "8">>>>, 0, "ocr_only")>>)>> }

\* the state when the loop of lines 176-187 has submitted every file
InitBatch ==
    /\ pc = "collecting"
    /\ \E n \in 1..MaxFiles :
          /\ files = [i \in 1..n |-> BatchFile(i)]
          /\ futures = [i \in 1..n |-> [done |-> FALSE, result |-> <<>>]]
    /\ num_threads \in ThreadCounts
    /\ log \in BOOLEAN
    /\ redo_empty \in BOOLEAN
    /\ csv \in BatchPriors
    /\ df = LoadOrInit(csv)
    /\ last = [n \in BatchNames |-> <<>>]
    /\ upserts = 0
    /\ recent = <<>>
    /\ clock = 1
    /\ next_task = 1
    /\ wpc = [w \in 1..num_threads |-> "idle"]
    /\ wdoc = [w \in 1..num_threads |-> 0]
    /\ wstrategy = [w \in 1..num_threads |-> "fast"]
    /\ collected = 0
    /\ in_log = {}
    /\ error_log = <<>>
    /\ NoFail
    /\ text = <<>> /\ all_codes = <<>>
    /\ pdf_path = <<>> /\ loader = <<>>
    /\ initial_strategy = "fast" /\ filtered_codes = <<>> /\ attempts = <<>>
    /\ console = <<>> /\ result = <<>>
    /\ code = <<>> /\ verdict = "none"

\* a thread of the pool takes the next work item: process_single_pdf with
\* "fast" (line 180)
TakeTask(w) ==
    /\ wpc[w] = "idle"
    /\ next_task <= Len(files)
    /\ wdoc' = [wdoc EXCEPT ![w] = next_task]
    /\ wstrategy' = [wstrategy EXCEPT ![w] = "fast"]
    /\ wpc' = [wpc EXCEPT ![w] = "log"]
    /\ next_task' = next_task + 1
    /\ UNCHANGED <<pc, text, all_codes, clock, ctlVars, validVars, storeVars,
                   failVars, files, num_threads, log, futures, collected, in_log,
                   error_log>>

\* line 23: the Lock object the with statement of this call of log_msg takes,
\* threading.Lock() makes a new one in every call
LogLock(w) == w

\* the log_msg of line 61, up to the with block on logs.txt: without --log
\* there is no file and log_msg only prints
LogMsg(w) ==
    /\ wpc[w] = "log"
    /\ IF log
       THEN /\ \A v \in in_log : LogLock(v) # LogLock(w)
            /\ in_log' = in_log \cup {w}
            /\ wpc' = [wpc EXCEPT ![w] = "in_log"]
       ELSE /\ wpc' = [wpc EXCEPT ![w] = "call"]
            /\ UNCHANGED in_log
    /\ UNCHANGED <<pc, text, all_codes, clock, ctlVars, validVars, storeVars,
                   failVars, files, num_threads, log, next_task, wdoc, wstrategy,
                   futures, collected, error_log>>

\* lines 24-25: the line is written, the file closed and the lock released
LogMsgWrite(w) ==
    /\ wpc[w] = "in_log"
    /\ in_log' = in_log \ {w}
    /\ wpc' = [wpc EXCEPT ![w] = "call"]
    /\ UNCHANGED <<pc, text, all_codes, clock, ctlVars, validVars, storeVars,
                   failVars, files, num_threads, log, next_task, wdoc, wstrategy,
                   futures, collected, error_log>>

\* lines 120-133: what process_single_pdf returns, <<>> is None
process_single_pdfMutant(outcome, raised) == <<outcome>>
process_single_pdf(outcome, raised) == IF raised THEN <<>> ELSE <<outcome>>

\* the rest of one call of extract_sector_codes in process_single_pdf: the
\* loader gives txt or raises (failed); the call itself raises (raised) and
\* the except branch of line 126 logs it, or it calls itself with ocr_only, or
\* it returns
ProcessSinglePdf(w) ==
    /\ wpc[w] = "call"
    /\ \E txt \in BatchTexts, failed, raised \in BOOLEAN :
          LET path     == files[wdoc[w]]
              strategy == wstrategy[w]
              loop     == FilterLoop(Matcher(IF failed THEN <<>> ELSE txt),
                                     strategy, <<>>)
              again    == \/ loop.switch
                          \/ EmptyFast(strategy, loop.filtered) /\ RedoesEmpty(redo_empty)
              outcome  == Outcome(path, loop.filtered, clock, strategy)
          IN  IF raised
              THEN /\ error_log' = Append(error_log, path)
                   /\ futures' = [futures EXCEPT ![wdoc[w]] =
                                     [done   |-> TRUE,
                                      result |-> process_single_pdf(outcome, TRUE)]]
                   /\ wpc' = [wpc EXCEPT ![w] = "idle"]
                   /\ UNCHANGED <<skipped, wstrategy>>
              ELSE /\ skipped' = SkipLog(skipped, path, failed)
                   /\ UNCHANGED error_log
                   /\ IF again
                      THEN /\ wstrategy' = [wstrategy EXCEPT ![w] = "ocr_only"]
                           /\ wpc' = [wpc EXCEPT ![w] = "log"]
                           /\ UNCHANGED futures
                      ELSE /\ futures' = [futures EXCEPT ![wdoc[w]] =
                                             [done   |-> TRUE,
                                              result |-> process_single_pdf(outcome, FALSE)]]
                           /\ wpc' = [wpc EXCEPT ![w] = "idle"]
                           /\ UNCHANGED wstrategy
    /\ UNCHANGED <<pc, text, all_codes, clock, ctlVars, validVars, storeVars,
                   load_fails, track_errors, files, num_threads, log, next_task,
                   wdoc, collected, in_log>>

\* lines 189-195 for the next future, in the main thread: future.result()
\* waits until the future is done
CollectResult ==
    /\ pc = "collecting"
    /\ collected < Len(files)
    /\ futures[collected + 1].done
    /\ LET res == futures[collected + 1].result
       IN  IF res # <<>>
           THEN /\ df' = Upsert(df, res[1])
                /\ csv' = Persist(csv, df')
                /\ last' = [last EXCEPT ![res[1].DocumentName] = res]
                /\ recent' = Recent(recent, res[1])
                /\ upserts' = upserts + 1
           ELSE UNCHANGED storeVars
    /\ collected' = collected + 1
    /\ UNCHANGED <<pc, text, all_codes, clock, ctlVars, validVars, failVars,
                   files, num_threads, log, next_task, wpc, wdoc, wstrategy,
                   futures, in_log, error_log>>

\* line 197, after the loop of line 189 and the with block of line 165
FinishBatch ==
    /\ pc = "collecting"
    /\ collected = Len(files)
    /\ pc' = "done"
    /\ UNCHANGED <<text, all_codes, clock, ctlVars, validVars, storeVars, failVars,
                   batchVars>>

NextBatch ==
    \/ \E w \in DOMAIN wpc : TakeTask(w)
    \/ \E w \in DOMAIN wpc : LogMsg(w)
    \/ \E w \in DOMAIN wpc : LogMsgWrite(w)
    \/ \E w \in DOMAIN wpc : ProcessSinglePdf(w)
    \/ CollectResult
    \/ FinishBatch

SpecBatch == InitBatch /\ [][NextBatch]_vars

\* the files whose future is done
Done == {i \in 1..Len(files) : futures[i].done}

\* the files whose processing returned an outcome
Returned == {i \in Done : futures[i].result # <<>>}

\* the files whose future holds None
NoOutcome == {i \in Done : futures[i].result = <<>>}

\* the files whose processing raised: the except branch of line 126 wrote them
\* to error_logs.txt
Raised == {i \in 1..Len(files) : \E k \in 1..Len(error_log) : error_log[k] = files[i]}

\* C12: once an upsert was made output.csv is what to_csv gives for df, and at
\* most one file has an outcome that the loop of line 189 has not upserted yet.
C12_AtMostOneUnpersisted ==
    /\ upserts > 0 => csv = <<ToCsv(df)>>
    /\ Cardinality({i \in Returned : i > collected}) <= 1

\* the lines of output.csv for a document name
LinesOf(name) ==
    IF csv = <<>> THEN {}
    ELSE {k \in 2..Len(csv[1]) : csv[1][k][1] = name}

\* when the batch is finished, output.csv has exactly one line for every file
\* that returned an outcome, the line to_csv writes for that outcome
PersistedOnce ==
    pc = "done" =>
        \A i \in Returned :
            /\ Cardinality(LinesOf(Basename(files[i]))) = 1
            /\ \A k \in LinesOf(Basename(files[i])) :
                  csv[1][k] = ToCsv(futures[i].result)[2]

\* C13: a step that changes df or output.csv is one whole pass of lines
\* 190-195 for one outcome, filter, append and to_csv together, and when the
\* batch is finished every file that returned an outcome has exactly one line
\* in output.csv, the line of that outcome.
C13_NoLostUpdate ==
    /\ []PersistedOnce
    /\ [][(df' # df \/ csv' # csv) =>
              /\ collected' = collected + 1
              /\ collected' \in Returned
              /\ df' = Upsert(df, futures[collected'].result[1])
              /\ csv' = <<ToCsv(df')>>]_vars

C13_Witness ==
    /\ pc = "done"
    /\ num_threads = 2
    /\ Returned = {1, 2}
    /\ futures[1].result[1].UsedOCROnly
    /\ ~futures[2].result[1].UsedOCROnly
    /\ Len(df) = 3

\* a row with the time of this run
WrittenNow(name) ==
    \E k \in 1..Len(df) :
        df[k].DocumentName = name /\ df[k].ProcessingTime = Strftime(clock)

\* some thread can take a step, or the main thread can
CanStep ==
    \/ \E w \in DOMAIN wpc : wpc[w] # "idle"
    \/ \E w \in DOMAIN wpc : wpc[w] = "idle" /\ next_task <= Len(files)
    \/ collected < Len(files) /\ (collected + 1) \in Done
    \/ collected = Len(files)

\* C15: a file whose processing raised is written to error_logs.txt once,
\* its future holds None and no row is written for it in this run; the batch
\* goes on until it is finished, and then every file has been processed and
\* every outcome returned is in the table.
C15_FaultContained ==
    /\ NoOutcome = Raised
    /\ Len(error_log) = Cardinality(Raised)
    /\ \A i \in Raised :
          /\ last[Basename(files[i])] = <<>>
          /\ ~WrittenNow(Basename(files[i]))
    /\ pc # "done" => CanStep
    /\ pc = "done" =>
          /\ Done = 1..Len(files)
          /\ \A i \in Returned :
                /\ last[Basename(files[i])] = futures[i].result
                /\ \E k \in 1..Len(df) : df[k] = futures[i].result[1]

C15_Witness ==
    /\ pc = "done"
    /\ Len(files) = 2
    /\ Raised = {1}
    /\ Returned = {2}
    /\ error_log = <<files[1]>>
    /\ Len(df) = 1
    /\ df[1] = futures[2].result[1]

\* the rows of a table for a document name
RowsOf(table, name) == SelectSeq(table, LAMBDA r : r.DocumentName = name)

NamesIn(table) == {table[k].DocumentName : k \in 1..Len(table)}

\* the lines of a file output.csv for a document name
FileRowsOf(file, name) ==
    IF file = <<>> THEN <<>>
    ELSE SelectSeq(Tail(file[1]), LAMBDA line : line[1] = name)

NamesInFile(file) ==
    IF file = <<>> THEN {}
    ELSE {file[1][k][1] : k \in 2..Len(file[1])}

\* the name of the outcome a step upserts is name
IsUpsertOf(name) == upserts' = upserts + 1 /\ recent'[1].DocumentName = name

\* a step leaves the rows of df of every other document name as they are
TableFrame ==
    \A name \in NamesIn(df) \cup NamesIn(df') :
        IsUpsertOf(name) \/ RowsOf(df', name) = RowsOf(df, name)

\* a step leaves the lines of output.csv of every other document name as
\* they are
FileFrame ==
    \A name \in NamesInFile(csv) \cup NamesInFile(csv') :
        IsUpsertOf(name) \/ FileRowsOf(csv', name) = FileRowsOf(csv, name)

\* the step of the loop of line 189 for a future that holds None leaves df
\* and output.csv as they are
NoneFrame ==
    (collected' = collected + 1 /\ collected' \in NoOutcome) =>
        (df' = df /\ csv' = csv)

\* C16: an upsert leaves the rows of every other document name as they are,
\* in df and in output.csv, the rows read from an earlier output.csv too, and
\* a file whose processing returns None leaves the whole table as it is.
C16_UpsertFrame == [][TableFrame /\ FileFrame /\ NoneFrame]_vars

\* C17: at most one thread is inside the with block of log_msg on logs.txt.
C17_LogMutex == Cardinality(in_log) <= 1

====
